---- MODULE Spec2Model ----
(***************************************************************************)
(* Model of main.py: parse_document, generate_video_prompts,               *)
(* save_results_txt, save_results_csv and main.                            *)
(*                                                                         *)
(* Text is a sequence of one-character strings.  A dict is a record        *)
(* [keys, val]: keys is the insertion order Python's dict iterates in,     *)
(* val the mapping.                                                        *)
(***************************************************************************)
EXTENDS Integers, Sequences, FiniteSets, TLC

VARIABLES pc, apiKey, suffix, content, docParas, fileReads, failure,
          matches, paragraphs, maxParagraphs, items, calls, results,
          txtOut, csvOut

vars == <<pc, apiKey, suffix, content, docParas, fileReads, failure,
          matches, paragraphs, maxParagraphs, items, calls, results,
          txtOut, csvOut>>

\* ------------------------------------------------------------------ bounds
MaxTokens == 5
MaxBlockTokens == 5
MaxDocxParas == 2
MaxPipelineTokens == 3
MaxCap == 3

\* ------------------------------------------------------- program constants
MinParagraphLen == 20

\* no exception has reached main
NoFailure == "none"
\* an output file that was never opened for writing
NoFile == [written |-> FALSE]

\* --------------------------------------------------------- character classes
Digits == {"0", "1", "2", "3", "4", "5", "6", "7", "8", "9"}

IsDigit(c) == c \in Digits

\* \s of the pattern and the whitespace of str.split() / str.strip()
IsSpace(c) == c \in {" ", "\n", "\t", "\r"}

DigitVal(c) ==
    CASE c = "0" -> 0 [] c = "1" -> 1 [] c = "2" -> 2 [] c = "3" -> 3
      [] c = "4" -> 4 [] c = "5" -> 5 [] c = "6" -> 6 [] c = "7" -> 7
      [] c = "8" -> 8 [] c = "9" -> 9

\* int(num) on a run of decimal digits
RECURSIVE ToInt(_)
ToInt(num) ==
    IF num = <<>> THEN 0
    ELSE 10 * ToInt(SubSeq(num, 1, Len(num) - 1)) + DigitVal(num[Len(num)])

\* ------------------------------------------------------------ str helpers
\* text.split(): the maximal runs of non-whitespace, in order
RECURSIVE SplitWs(_, _)
SplitWs(text, word) ==
    IF text = <<>> THEN (IF word = <<>> THEN <<>> ELSE <<word>>)
    ELSE IF IsSpace(Head(text))
         THEN (IF word = <<>> THEN <<>> ELSE <<word>>) \o SplitWs(Tail(text), <<>>)
         ELSE SplitWs(Tail(text), Append(word, Head(text)))

\* sep.join(parts)
RECURSIVE Join(_, _)
Join(sep, parts) ==
    IF parts = <<>> THEN <<>>
    ELSE IF Len(parts) = 1 THEN parts[1]
    ELSE parts[1] \o sep \o Join(sep, Tail(parts))

\* ' '.join(text.split())
Collapse(text) == Join(<<" ">>, SplitWs(text, <<>>))

RECURSIVE LStrip(_)
LStrip(text) ==
    IF text # <<>> /\ IsSpace(Head(text)) THEN LStrip(Tail(text)) ELSE text

RECURSIVE RStrip(_)
RStrip(text) ==
    IF text # <<>> /\ IsSpace(text[Len(text)])
    THEN RStrip(SubSeq(text, 1, Len(text) - 1)) ELSE text

\* text.strip()
Strip(text) == RStrip(LStrip(text))

\* content.split('\n\n'): cut at each leftmost non-overlapping "\n\n"
RECURSIVE SplitBlank(_, _)
SplitBlank(text, part) ==
    IF text = <<>> THEN <<part>>
    ELSE IF Len(text) >= 2 /\ text[1] = "\n" /\ text[2] = "\n"
         THEN <<part>> \o SplitBlank(SubSeq(text, 3, Len(text)), <<>>)
         ELSE SplitBlank(Tail(text), Append(part, Head(text)))

\* ------------------------------------------------------------ the pattern
\* pattern = (\d+)\.\s+(.+?)(?=\n\d+\.\s+|\Z), flags re.DOTALL

AllDigits(s, i, j) == \A k \in i..j : IsDigit(s[k])

AllSpace(s, i, j) == \A k \in i..j : IsSpace(s[k])

\* \n\d+\.\s+ matches starting at position p
NextNumberAt(s, p) ==
    /\ p <= Len(s)
    /\ s[p] = "\n"
    /\ \E e \in (p + 1)..Len(s) :
          /\ AllDigits(s, p + 1, e)
          /\ e + 2 <= Len(s)
          /\ s[e + 1] = "."
          /\ IsSpace(s[e + 2])

\* the lookahead without its next-number alternative: (?=\Z)
Lookahead_EndOnly(s, t) == t = Len(s)

\* the lookahead (?=\n\d+\.\s+|\Z) succeeds after position t
Lookahead(s, t) == t = Len(s) \/ NextNumberAt(s, t + 1)

\* every <<d, w, t>>: \d+ is s[i..d], \. is s[d+1], \s+ is s[d+2..w],
\* .+? is s[w+1..t] and the lookahead succeeds after t
Candidates(s, i) ==
    UNION { UNION { { <<d, w, t>> : t \in { u \in (w + 1)..Len(s) : Lookahead(s, u) } }
                    : w \in { v \in (d + 2)..Len(s) :
                                s[d + 1] = "." /\ AllSpace(s, d + 2, v) } }
            : d \in { e \in i..Len(s) : AllDigits(s, i, e) } }

\* start and end of a match are the positions re.findall resumes from; the
\* groups it returns are num and text
\* the candidate the backtracking engine reaches first: \d+ and \s+ are
\* greedy (longest first), .+? is lazy (shortest first)
First(C) ==
    CHOOSE c \in C : \A o \in C :
        \/ c[1] > o[1]
        \/ c[1] = o[1] /\ c[2] > o[2]
        \/ c[1] = o[1] /\ c[2] = o[2] /\ c[3] <= o[3]

MatchAt(s, i) ==
    LET c == First(Candidates(s, i))
    IN  [start |-> i, end |-> c[3],
         num |-> SubSeq(s, i, c[1]), text |-> SubSeq(s, c[2] + 1, c[3])]

\* re.findall(pattern, content, re.DOTALL): leftmost match from pos, then
\* resume right after it
RECURSIVE FindAll(_, _)
FindAll(s, pos) ==
    IF pos > Len(s) THEN <<>>
    ELSE IF Candidates(s, pos) # {}
         THEN <<MatchAt(s, pos)>> \o FindAll(s, MatchAt(s, pos).end + 1)
         ELSE FindAll(s, pos + 1)

\* ------------------------------------------------------------------- dicts
EmptyDict == [keys |-> <<>>, val |-> <<>>]

\* a dict that keeps the first value stored under a key
DictPut_FirstWins(d, k, v) ==
    IF k \in DOMAIN d.val THEN d
    ELSE [keys |-> Append(d.keys, k),
          val  |-> [x \in (DOMAIN d.val) \cup {k} |-> IF x = k THEN v ELSE d.val[x]]]

\* d[k] = v: a new key goes last in iteration order, an existing key keeps
\* its place and takes the new value
DictPut(d, k, v) ==
    [keys |-> IF k \in DOMAIN d.val THEN d.keys ELSE Append(d.keys, k),
     val  |-> [x \in (DOMAIN d.val) \cup {k} |-> IF x = k THEN v ELSE d.val[x]]]

\* list(d.items())
DictItems(d) == [i \in 1..Len(d.keys) |-> <<d.keys[i], d.val[d.keys[i]]>>]

\* sorted(keys)
RECURSIVE Sorted(_)
Sorted(S) ==
    IF S = {} THEN <<>>
    ELSE LET m == CHOOSE x \in S : \A y \in S : x <= y
         IN  <<m>> \o Sorted(S \ {m})

\* seq[:c]
SliceTo(seq, c) ==
    IF c >= 0 THEN SubSeq(seq, 1, IF c < Len(seq) THEN c ELSE Len(seq))
    ELSE SubSeq(seq, 1, IF Len(seq) + c > 0 THEN Len(seq) + c ELSE 0)

\* ---------------------------------------------------------- parse_document
\* for num, text in matches: paragraphs[int(num)] = ' '.join(text.split())
RECURSIVE ScanDict(_, _)
ScanDict(ms, d) ==
    IF ms = <<>> THEN d
    ELSE ScanDict(Tail(ms),
                  DictPut(d, ToInt(Head(ms).num), Collapse(Head(ms).text)))

\* the length test with >= in place of >
Accepts_AtLeast(text) == text # <<>> /\ Len(text) >= MinParagraphLen

\* if text and len(text) > 20
Accepts(text) == text # <<>> /\ Len(text) > MinParagraphLen

\* the .docx fallback loop over doc.paragraphs
RECURSIVE FallbackDocxDict(_, _, _)
FallbackDocxDict(paras, d, para_num) ==
    IF paras = <<>> THEN d
    ELSE LET text == Strip(Head(paras))
         IN  IF Accepts(text)
             THEN FallbackDocxDict(Tail(paras), DictPut(d, para_num, text), para_num + 1)
             ELSE FallbackDocxDict(Tail(paras), d, para_num)

\* the plain-text fallback loop over content.split('\n\n')
RECURSIVE FallbackPlainDict(_, _, _)
FallbackPlainDict(parts, d, para_num) ==
    IF parts = <<>> THEN d
    ELSE LET text == Strip(Collapse(Head(parts)))
         IN  IF Accepts(text)
             THEN FallbackPlainDict(Tail(parts), DictPut(d, para_num, text), para_num + 1)
             ELSE FallbackPlainDict(Tail(parts), d, para_num)

\* ------------------------------------------------------------- input files
Rep(c, n) == [i \in 1..n |-> c]

RECURSIVE TokenDocs(_, _)
TokenDocs(T, n) ==
    IF n = 0 THEN {<<>>}
    ELSE LET P == TokenDocs(T, n - 1)
         IN  P \cup { p \o t : p \in P, t \in T }

NumberTokens ==
    { <<"1", ".", " ">>, <<"2", ".", " ">>, <<"2">>, <<"a">>, <<"\n">>, <<" ">> }

Long21 == Rep("a", MinParagraphLen + 1)
Short20 == Rep("a", MinParagraphLen)
Spaced21 == Rep("a", MinParagraphLen - 2) \o <<" ", " ", "b">>

BlockTokens == { Long21, Short20, Spaced21, <<"\n", "\n">>, <<"\n">> }

PipelineTokens ==
    { <<"1", ".", " ", "a", "\n">>, <<"2", ".", " ", "b", "\n">>,
      Long21 \o <<"\n", "\n">> }

\* plain-text files for parse_document alone
ParseDocs == TokenDocs(NumberTokens, MaxTokens) \cup TokenDocs(BlockTokens, MaxBlockTokens)

\* plain-text files for the whole run
PipelineDocs == TokenDocs(PipelineTokens, MaxPipelineTokens)

DocxParaTexts ==
    { <<>>, <<"1", ".", " ", "a">>, Long21, Short20,
      Rep("a", 11) \o <<" ", " ">> \o Rep("a", 11),
      <<" ">> \o Rep("a", 11) \o <<"\t">> \o Rep("a", 11) \o <<" ">> }

RECURSIVE SeqsUpTo(_, _)
SeqsUpTo(S, n) ==
    IF n = 0 THEN {<<>>}
    ELSE LET P == SeqsUpTo(S, n - 1)
         IN  P \cup { Append(p, x) : p \in P, x \in S }

\* the paragraph lists of .docx files
DocxDocs == SeqsUpTo(DocxParaTexts, MaxDocxParas)

\* max_paragraphs: None is <<>>, the integer n is <<n>>
NoCap == <<>>

Caps == {NoCap} \cup { <<n>> : n \in 0..MaxCap }

\* what one chat.completions.create call does: return a message content or raise
RemoteOutcomes ==
    { [ok |-> TRUE, body |-> <<"P">>], [ok |-> TRUE, body |-> <<" ", "Q", "\n">>],
      [ok |-> FALSE, body |-> <<"APIError()">>] }

\* ------------------------------------------------------------------- state
Blank ==
    /\ content = <<>>
    /\ docParas = <<>>
    /\ fileReads = 0
    /\ failure = NoFailure
    /\ matches = <<>>
    /\ paragraphs = EmptyDict
    /\ maxParagraphs = NoCap
    /\ items = <<>>
    /\ calls = <<>>
    /\ results = EmptyDict
    /\ txtOut = NoFile
    /\ csvOut = NoFile

\* main() is entered; the credential and the input file's suffix, literals in
\* main, are inputs of the run
Init ==
    /\ pc = "main"
    /\ apiKey \in {"", "sk-key"}
    /\ suffix \in {".docx", ".txt"}
    /\ Blank

\* parse_document(file_path) is entered
InitParse ==
    /\ pc = "read"
    /\ apiKey = ""
    /\ suffix \in {".docx", ".txt"}
    /\ Blank

\* main without the return after the instructions
CheckApiKey_NoReturn ==
    /\ pc = "main"
    /\ pc' = "read"
    /\ UNCHANGED <<apiKey, suffix, content, docParas, fileReads, failure,
                   matches, paragraphs, maxParagraphs, items, calls, results,
                   txtOut, csvOut>>

\* ----------------------------------------------------------------- actions
\* main: if not OPENROUTER_API_KEY: print the instructions and return
CheckApiKey ==
    /\ pc = "main"
    /\ pc' = IF apiKey = "" THEN "done" ELSE "read"
    /\ UNCHANGED <<apiKey, suffix, content, docParas, fileReads, failure,
                   matches, paragraphs, maxParagraphs, items, calls, results,
                   txtOut, csvOut>>

\* parse_document: load the file; main returns on any exception
ReadFile(Docs) ==
    /\ pc = "read"
    /\ fileReads' = fileReads + 1
    /\ \/ /\ \E e \in {"FileNotFoundError", "Exception"} : failure' = e
          /\ pc' = "load_failed"
          /\ UNCHANGED <<content, docParas>>
       \/ /\ suffix = ".docx"
          /\ \E ps \in DocxDocs :
                /\ docParas' = ps
                /\ content' = Join(<<"\n">>, ps)
          /\ pc' = "scan"
          /\ UNCHANGED failure
       \/ /\ suffix # ".docx"
          /\ \E c \in Docs : content' = c
          /\ pc' = "scan"
          /\ UNCHANGED <<docParas, failure>>
    /\ UNCHANGED <<apiKey, suffix, matches, paragraphs, maxParagraphs, items,
                   calls, results, txtOut, csvOut>>

ReadFileMain == ReadFile(PipelineDocs)

ReadFileParse == ReadFile(ParseDocs)

\* parse_document: the numbered scan
NumberedScan ==
    /\ pc = "scan"
    /\ matches' = FindAll(content, 1)
    /\ IF matches' # <<>>
       THEN /\ paragraphs' = ScanDict(matches', EmptyDict)
            /\ pc' = "parsed"
       ELSE /\ paragraphs' = paragraphs
            /\ pc' = "fallback"
    /\ UNCHANGED <<apiKey, suffix, content, docParas, fileReads, failure,
                   maxParagraphs, items, calls, results, txtOut, csvOut>>

\* the second read with its exception swallowed instead of reaching main
FallbackDocx_Swallow ==
    /\ pc = "fallback"
    /\ suffix = ".docx"
    /\ fileReads' = fileReads + 1
    /\ \/ /\ \E e \in {"FileNotFoundError", "Exception"} : failure' = e
          /\ pc' = "parsed"
          /\ UNCHANGED paragraphs
       \/ /\ paragraphs' = FallbackDocxDict(docParas, EmptyDict, 1)
          /\ pc' = "parsed"
          /\ UNCHANGED failure
    /\ UNCHANGED <<apiKey, suffix, content, docParas, matches, maxParagraphs,
                   items, calls, results, txtOut, csvOut>>

\* parse_document: no numbering in a .docx, the document is opened again
FallbackDocx ==
    /\ pc = "fallback"
    /\ suffix = ".docx"
    /\ fileReads' = fileReads + 1
    /\ \/ /\ \E e \in {"FileNotFoundError", "Exception"} : failure' = e
          /\ pc' = "load_failed"
          /\ UNCHANGED paragraphs
       \/ /\ paragraphs' = FallbackDocxDict(docParas, EmptyDict, 1)
          /\ pc' = "parsed"
          /\ UNCHANGED failure
    /\ UNCHANGED <<apiKey, suffix, content, docParas, matches, maxParagraphs,
                   items, calls, results, txtOut, csvOut>>

\* parse_document: no numbering in a plain-text file
FallbackPlain ==
    /\ pc = "fallback"
    /\ suffix # ".docx"
    /\ paragraphs' = FallbackPlainDict(SplitBlank(content, <<>>), EmptyDict, 1)
    /\ pc' = "parsed"
    /\ UNCHANGED <<apiKey, suffix, content, docParas, fileReads, failure,
                   matches, maxParagraphs, items, calls, results, txtOut, csvOut>>

\* if max_paragraphs: items = items[:max_paragraphs]
SelectedItems(d, cap) ==
    IF cap # NoCap /\ cap[1] # 0 THEN SliceTo(DictItems(d), cap[1]) ELSE DictItems(d)

\* generate_video_prompts: results = {}, the items to process
SelectItems ==
    /\ pc = "parsed"
    /\ \E cap \in Caps :
          /\ maxParagraphs' = cap
          /\ items' = SelectedItems(paragraphs, cap)
    /\ pc' = "generate"
    /\ UNCHANGED <<apiKey, suffix, content, docParas, fileReads, failure,
                   matches, paragraphs, calls, results, txtOut, csvOut>>

\* the entry the loop body stores for one outcome of the remote call
ResultOf(o) ==
    IF o.ok THEN Strip(o.body) ELSE <<"ERROR: ">> \o o.body

\* the loop with an except clause that records the marker and leaves the loop
GenerateItem_Abort ==
    /\ pc = "generate"
    /\ Len(calls) < Len(items)
    /\ LET item == items[Len(calls) + 1]
       IN  \E o \in RemoteOutcomes :
              /\ calls' = Append(calls, [num |-> item[1], text |-> item[2], outcome |-> o])
              /\ results' = DictPut(results, item[1], ResultOf(o))
              /\ pc' = IF o.ok THEN pc ELSE "save_txt"
    /\ UNCHANGED <<apiKey, suffix, content, docParas, fileReads, failure,
                   matches, paragraphs, maxParagraphs, items, txtOut, csvOut>>

\* generate_video_prompts: one iteration of the loop
GenerateItem ==
    /\ pc = "generate"
    /\ Len(calls) < Len(items)
    /\ LET item == items[Len(calls) + 1]
       IN  \E o \in RemoteOutcomes :
              /\ calls' = Append(calls, [num |-> item[1], text |-> item[2], outcome |-> o])
              /\ results' = DictPut(results, item[1], ResultOf(o))
    /\ UNCHANGED <<pc, apiKey, suffix, content, docParas, fileReads, failure,
                   matches, paragraphs, maxParagraphs, items, txtOut, csvOut>>

\* generate_video_prompts: return results
ReturnResults ==
    /\ pc = "generate"
    /\ Len(calls) = Len(items)
    /\ pc' = "save_txt"
    /\ UNCHANGED <<apiKey, suffix, content, docParas, fileReads, failure,
                   matches, paragraphs, maxParagraphs, items, calls, results,
                   txtOut, csvOut>>

\* the writers iterating the dict itself instead of its sorted keys
WriteOrder_Insertion(d) == d.keys

\* the order both writers visit the keys in
WriteOrder(d) == Sorted({ d.keys[i] : i \in 1..Len(d.keys) })

\* save_results_txt: the banner, then one block per key
SaveResultsTxt ==
    /\ pc = "save_txt"
    /\ txtOut' = [written |-> TRUE, banner |-> "VIDEO PROMPTS GENERATED",
                  blocks |-> [i \in 1..Len(WriteOrder(results)) |->
                                [num |-> WriteOrder(results)[i],
                                 text |-> results.val[WriteOrder(results)[i]]]]]
    /\ pc' = "save_csv"
    /\ UNCHANGED <<apiKey, suffix, content, docParas, fileReads, failure,
                   matches, paragraphs, maxParagraphs, items, calls, results,
                   csvOut>>

\* save_results_csv: the header row, then one row per key
SaveResultsCsv ==
    /\ pc = "save_csv"
    /\ csvOut' = [written |-> TRUE, header |-> <<"Paragraph Number", "Video Prompt">>,
                  rows |-> [i \in 1..Len(WriteOrder(results)) |->
                              <<WriteOrder(results)[i],
                                results.val[WriteOrder(results)[i]]>>]]
    /\ pc' = "done"
    /\ UNCHANGED <<apiKey, suffix, content, docParas, fileReads, failure,
                   matches, paragraphs, maxParagraphs, items, calls, results,
                   txtOut>>

\* ---------------------------------------------------------- specifications
Next ==
    \/ CheckApiKey
    \/ ReadFileMain
    \/ NumberedScan
    \/ FallbackDocx
    \/ FallbackPlain
    \/ SelectItems
    \/ GenerateItem
    \/ ReturnResults
    \/ SaveResultsTxt
    \/ SaveResultsCsv

Spec == Init /\ [][Next]_vars

NextParse ==
    \/ ReadFileParse
    \/ NumberedScan
    \/ FallbackDocx
    \/ FallbackPlain

SpecParse == InitParse /\ [][NextParse]_vars

\* ------------------------------------------------------------------ claims
\* no leading or trailing whitespace, no two whitespace characters in a row,
\* and no whitespace character other than the space
WsCollapsed(text) ==
    /\ text # <<>>
    /\ ~IsSpace(text[1])
    /\ ~IsSpace(text[Len(text)])
    /\ \A i \in 1..(Len(text) - 1) : ~(IsSpace(text[i]) /\ IsSpace(text[i + 1]))
    /\ \A i \in 1..Len(text) : IsSpace(text[i]) => text[i] = " "

KeySet(d) == { d.keys[i] : i \in 1..Len(d.keys) }

\* C1: every value of the Paragraph Collection parse_document returns is
\* non-empty and whitespace-collapsed, on every extraction path.
C1_ValuesCollapsed ==
    pc = "parsed" => \A k \in DOMAIN paragraphs.val : WsCollapsed(paragraphs.val[k])

\* C2: the keys of the Result Collection are the first N keys of the
\* Paragraph Collection, N = min(cap, size) with a cap (0 included) and
\* N = size without one.
C2_FirstNKeys ==
    pc = "save_txt" =>
        LET size == Len(paragraphs.keys)
            N == IF maxParagraphs = NoCap THEN size
                 ELSE IF maxParagraphs[1] < size THEN maxParagraphs[1] ELSE size
        IN  results.keys = SubSeq(paragraphs.keys, 1, N)

\* C3: whatever each remote call does, the selected paragraphs are attempted
\* once each, in order, and each ends with its own entry: the returned prompt
\* after a success, an error marker after a failure.
C3_EveryItemAttempted ==
    /\ Len(calls) <= Len(items)
    /\ \A i \in 1..Len(calls) :
          /\ calls[i].num = items[i][1]
          /\ calls[i].text = items[i][2]
          /\ IF calls[i].outcome.ok
             THEN results.val[items[i][1]] = Strip(calls[i].outcome.body)
             ELSE /\ Head(results.val[items[i][1]]) = "ERROR: "
                  /\ Tail(results.val[items[i][1]]) = calls[i].outcome.body
    /\ results.keys = [i \in 1..Len(calls) |-> items[i][1]]
    /\ pc \in {"save_txt", "save_csv"} => Len(calls) = Len(items)

C3_Witness ==
    /\ pc = "save_txt"
    /\ \E i, j \in 1..Len(calls) :
          i < j /\ ~calls[i].outcome.ok /\ calls[j].outcome.ok

\* C4: with an empty credential the run ends after the instructions: the
\* input is never read, no request is issued, no output file is written.
C4_NoKeyNoWork ==
    apiKey = "" =>
        /\ pc \in {"main", "done"}
        /\ fileReads = 0
        /\ calls = <<>>
        /\ txtOut = NoFile
        /\ csvOut = NoFile

C4_Witness == apiKey = "" /\ pc = "done"

\* C5: once loading has failed, on the first read or on the second read of a
\* .docx, the run has halted: no request is issued, no output file is written.
C5_LoadFailureHalts ==
    failure # NoFailure =>
        /\ pc = "load_failed"
        /\ items = <<>>
        /\ calls = <<>>
        /\ txtOut = NoFile
        /\ csvOut = NoFile

C5_Witness == failure # NoFailure /\ fileReads = 2

\* text.split('\n')
RECURSIVE SplitLines(_, _)
SplitLines(text, line) ==
    IF text = <<>> THEN <<line>>
    ELSE IF Head(text) = "\n"
         THEN <<line>> \o SplitLines(Tail(text), <<>>)
         ELSE SplitLines(Tail(text), Append(line, Head(text)))

\* the line is "<k>. <text>": digits, a period, a space, a non-blank text
NumberEnd(line) ==
    { d \in 1..(Len(line) - 3) :
        /\ AllDigits(line, 1, d)
        /\ line[d + 1] = "."
        /\ line[d + 2] = " "
        /\ \E j \in (d + 3)..Len(line) : ~IsSpace(line[j]) }

LineKey(line) == ToInt(SubSeq(line, 1, CHOOSE d \in NumberEnd(line) : TRUE))

LineText(line) ==
    SubSeq(line, (CHOOSE d \in NumberEnd(line) : TRUE) + 3, Len(line))

WellFormed(text) ==
    LET lines == SplitLines(text, <<>>)
    IN  /\ \A i \in 1..Len(lines) : NumberEnd(lines[i]) # {}
        /\ \A i, j \in 1..Len(lines) :
              i # j => LineKey(lines[i]) # LineKey(lines[j])

\* C6: on well-formed numbered input the numbered scan yields exactly one
\* entry per line: the leading integer mapped to the whitespace-collapsed
\* remainder of the line.
C6_WellFormedExact ==
    (pc = "parsed" /\ WellFormed(content)) =>
        LET lines == SplitLines(content, <<>>)
        IN  /\ DOMAIN paragraphs.val = { LineKey(lines[i]) : i \in 1..Len(lines) }
            /\ KeySet(paragraphs) = DOMAIN paragraphs.val
            /\ Len(paragraphs.keys) = Len(lines)
            /\ \A i \in 1..Len(lines) :
                  /\ WsCollapsed(paragraphs.val[LineKey(lines[i])])
                  /\ SplitWs(paragraphs.val[LineKey(lines[i])], <<>>)
                        = SplitWs(LineText(lines[i]), <<>>)

C6_Witness ==
    /\ pc = "parsed"
    /\ WellFormed(content)
    /\ Len(SplitLines(content, <<>>)) >= 2

LongEnough(text) == Len(text) > 20

\* C7: on plain text without numbering the fallback keys the blocks between
\* blank-line boundaries whose collapsed, trimmed length exceeds 20 with
\* 1..N in document order; a shorter block is dropped and takes no key.
C7_FallbackSequential ==
    (pc = "parsed" /\ suffix # ".docx" /\ matches = <<>>) =>
        LET parts == SplitBlank(content, <<>>)
            blocks == [i \in 1..Len(parts) |-> Strip(Collapse(parts[i]))]
            kept == SelectSeq(blocks, LongEnough)
        IN  /\ paragraphs.keys = [i \in 1..Len(kept) |-> i]
            /\ \A i \in 1..Len(kept) : paragraphs.val[i] = kept[i]

C7_Witness ==
    /\ pc = "parsed" /\ suffix # ".docx" /\ matches = <<>>
    /\ Len(paragraphs.keys) >= 2
    /\ LET parts == SplitBlank(content, <<>>)
       IN  \E i, j, k \in 1..Len(parts) :
              /\ i < j /\ j < k
              /\ Len(Strip(Collapse(parts[i]))) > 20
              /\ Len(Strip(Collapse(parts[j]))) = 20
              /\ Len(Strip(Collapse(parts[k]))) > 20

\* C8: both writers emit one block or row per key of the Result Collection,
\* in ascending key order whatever the insertion order, with the same keys
\* and the same result text.
C8_WritersSortedAndEqual ==
    /\ txtOut.written =>
          /\ Len(txtOut.blocks) = Cardinality(DOMAIN results.val)
          /\ { txtOut.blocks[i].num : i \in 1..Len(txtOut.blocks) } = DOMAIN results.val
          /\ \A i \in 1..(Len(txtOut.blocks) - 1) :
                txtOut.blocks[i].num < txtOut.blocks[i + 1].num
          /\ \A i \in 1..Len(txtOut.blocks) :
                txtOut.blocks[i].text = results.val[txtOut.blocks[i].num]
    /\ csvOut.written =>
          /\ Len(csvOut.rows) = Cardinality(DOMAIN results.val)
          /\ { csvOut.rows[i][1] : i \in 1..Len(csvOut.rows) } = DOMAIN results.val
          /\ \A i \in 1..(Len(csvOut.rows) - 1) :
                csvOut.rows[i][1] < csvOut.rows[i + 1][1]
          /\ \A i \in 1..Len(csvOut.rows) :
                csvOut.rows[i][2] = results.val[csvOut.rows[i][1]]
          /\ Len(csvOut.rows) = Len(txtOut.blocks)
          /\ \A i \in 1..Len(csvOut.rows) :
                csvOut.rows[i] = <<txtOut.blocks[i].num, txtOut.blocks[i].text>>

C8_Witness ==
    /\ csvOut.written
    /\ \E i \in 1..(Len(results.keys) - 1) : results.keys[i] > results.keys[i + 1]
    /\ \E k \in DOMAIN results.val : Head(results.val[k]) = "ERROR: "

\* C9: a "digits, period, whitespace" token that is not at the start of the
\* text or right after a line break never starts a numbered paragraph.
C9_LineInitialOnly ==
    pc = "parsed" =>
        \A i \in 1..Len(matches) :
            matches[i].start = 1 \/ content[matches[i].start - 1] = "\n"

\* C10: a number that occurs more than once in the numbered scan has a single
\* entry, holding the text of its last occurrence in document order.
C10_LastWriteWins ==
    (pc = "parsed" /\ matches # <<>>) =>
        /\ DOMAIN paragraphs.val = { ToInt(matches[i].num) : i \in 1..Len(matches) }
        /\ Len(paragraphs.keys) = Cardinality(DOMAIN paragraphs.val)
        /\ KeySet(paragraphs) = DOMAIN paragraphs.val
        /\ \A i \in 1..Len(matches) :
              (\A j \in (i + 1)..Len(matches) :
                  ToInt(matches[j].num) # ToInt(matches[i].num))
              => paragraphs.val[ToInt(matches[i].num)] = Collapse(matches[i].text)

C10_Witness ==
    /\ pc = "parsed"
    /\ \E i, j \in 1..Len(matches) :
          /\ i < j
          /\ ToInt(matches[i].num) = ToInt(matches[j].num)
          /\ Collapse(matches[i].text) # Collapse(matches[j].text)

====
